---- MODULE Spec2Model ----
(***************************************************************************)
(* State-machine model of app.py, the HR ID card generator: reading the    *)
(* three uploads, extracting the photo archive into a scratch directory,   *)
(* rendering one card per spreadsheet row (text, photo, barcode) and       *)
(* exporting the cards as one PDF.                                         *)
(*                                                                         *)
(* Text is a sequence of one-character tokens.  Arabic letters are written *)
(* by their names ("alef", "beh", ...).                                    *)
(***************************************************************************)
EXTENDS Integers, Sequences, FiniteSets, TLC

VARIABLES
    pc,             \* position of the script
    photos_archive, \* the uploaded archive: [name, tree]
    df,             \* the DataFrame read from the spreadsheet: [cols, rows]
    tmpdir_state,   \* "not_created" | "exists" | "deleted"
    tmpdir,         \* the directory tree under tmpdir (while it exists)
    idx,            \* number of rows the loop has finished
    row,            \* locals of the iteration under way
    card,           \* the card under construction
    output_cards,   \* list of finished cards
    warnings,       \* st.warning calls so far: set of [row, kind]
    errors,         \* st.error calls and uncaught exceptions so far
    tmpfiles,       \* barcode temp files that are on disk: set of [row, ext]
    pdf             \* the PDF written by the export step

vars == <<pc, photos_archive, df, tmpdir_state, tmpdir, idx, row, card,
          output_cards, warnings, errors, tmpfiles, pdf>>

----------------------------------------------------------------------------
(* Bounds of the model *)

\* Largest number of spreadsheet rows.
MaxRows == 2

\* Deepest nesting of directories under the root that find_photo_path is
\* applied to in SpecFind.
MaxDepth == 2

----------------------------------------------------------------------------
(* Characters and strings *)

ArabicLetters ==
    {"alef", "beh", "lam", "reh", "qaf", "meem", "waw", "zah", "yeh", "feh"}

\* Arabic letters that join only to the letter before them.
RightJoining == {"alef", "reh", "waw"}

LatinLetters ==
    {"a", "b", "c", "j", "p", "n", "z", "i", "r", "t",
     "A", "B", "J", "P", "Z", "I"}

Digits == {"1", "2", "7"}

\* str.lower() on one character.
Lower(c) ==
    CASE c = "A" -> "a"
      [] c = "B" -> "b"
      [] c = "J" -> "j"
      [] c = "P" -> "p"
      [] c = "Z" -> "z"
      [] c = "I" -> "i"
      [] OTHER -> c

\* str.lower()
LowerStr(s) == [i \in 1..Len(s) |-> Lower(s[i])]

IsSpace(c) == c = " "

RECURSIVE LStrip(_)
LStrip(s) ==
    IF s # <<>> /\ IsSpace(Head(s)) THEN LStrip(Tail(s)) ELSE s

RECURSIVE RStrip(_)
RStrip(s) ==
    IF s # <<>> /\ IsSpace(s[Len(s)])
    THEN RStrip(SubSeq(s, 1, Len(s) - 1))
    ELSE s

\* str.strip()
Strip(s) == RStrip(LStrip(s))

\* str.rfind("."), 1-based; 0 when there is no dot.
RFindDot(s) ==
    LET dots == {i \in 1..Len(s) : s[i] = "."}
    IN IF dots = {} THEN 0 ELSE CHOOSE i \in dots : \A j \in dots : j <= i

\* pathlib's Path(name).stem for a single path component: the name without
\* its last suffix; a leading dot or a trailing dot starts no suffix.
Stem(name) ==
    LET i == RFindDot(name)
    IN IF 1 < i /\ i < Len(name) THEN SubSeq(name, 1, i - 1) ELSE name

\* str.endswith
EndsWith(s, suffix) ==
    /\ Len(s) >= Len(suffix)
    /\ SubSeq(s, Len(s) - Len(suffix) + 1, Len(s)) = suffix

----------------------------------------------------------------------------
(* Directory trees                                                         *)
(* A directory is [name, files, dirs]: files and dirs are sequences, in    *)
(* the order the operating system lists them.  A file is [fn, kind].       *)

Dir(name, files, dirs) == [name |-> name, files |-> files, dirs |-> dirs]
File(fn, kind) == [fn |-> fn, kind |-> kind]

EmptyDir == Dir("", <<>>, <<>>)

RECURSIVE WalkDirs(_, _)
\* os.walk, top-down: the directory itself, then each subdirectory in turn,
\* each with everything below it.  An entry is [dirpath, filenames].
Walk(dirpath, d) ==
    <<[dirpath |-> dirpath, files |-> d.files]>> \o WalkDirs(dirpath, d.dirs)

WalkDirs(dirpath, ds) ==
    IF ds = <<>> THEN <<>>
    ELSE Walk(dirpath \o <<Head(ds).name>>, Head(ds)) \o WalkDirs(dirpath, Tail(ds))

NotFound == [found |-> FALSE]
FoundAt(dirpath, f) ==
    [found |-> TRUE, dirpath |-> dirpath, fn |-> f.fn, kind |-> f.kind]

\* A comparison that forgets to lower-case the file's stem.
StemMatchesCaseSensitive(fn, req_stem) == Stem(fn) = req_stem

\* The comparison of the inner loop: the file's stem, in lower case, against
\* the requested stem.
StemMatches(fn, req_stem) == LowerStr(Stem(fn)) = req_stem

RECURSIVE FirstInFiles(_, _, _)
\* The inner loop of find_photo_path over one directory's filenames.
FirstInFiles(dirpath, files, req_stem) ==
    IF files = <<>> THEN NotFound
    ELSE IF StemMatches(Head(files).fn, req_stem)
         THEN FoundAt(dirpath, Head(files))
         ELSE FirstInFiles(dirpath, Tail(files), req_stem)

RECURSIVE FirstInWalk(_, _)
\* The outer loop of find_photo_path over os.walk's entries.
FirstInWalk(entries, req_stem) ==
    IF entries = <<>> THEN NotFound
    ELSE LET hit == FirstInFiles(Head(entries).dirpath, Head(entries).files, req_stem)
         IN IF hit.found THEN hit ELSE FirstInWalk(Tail(entries), req_stem)

find_photo_path(root_dir, requested) ==
    IF requested = <<>> THEN NotFound
    ELSE LET req == LowerStr(Strip(requested))
             req_stem == LowerStr(Stem(req))
         IN FirstInWalk(Walk(<<>>, root_dir), req_stem)

----------------------------------------------------------------------------
(* Text shaping: arabic_reshaper.reshape, then bidi's get_display.         *)
(* A shaped character is [ch, form].                                       *)

JoinsPrev(s, i) ==
    /\ i > 1
    /\ s[i - 1] \in ArabicLetters
    /\ s[i - 1] \notin RightJoining

JoinsNext(s, i) ==
    /\ s[i] \notin RightJoining
    /\ i < Len(s)
    /\ s[i + 1] \in ArabicLetters

\* arabic_reshaper.reshape: every Arabic letter takes the contextual form its
\* neighbours call for; other characters are left as they are.
Reshape(s) ==
    [i \in 1..Len(s) |->
        [ch |-> s[i],
         form |-> IF s[i] \notin ArabicLetters THEN "plain"
                  ELSE IF JoinsPrev(s, i) /\ JoinsNext(s, i) THEN "medial"
                  ELSE IF JoinsPrev(s, i) THEN "final"
                  ELSE IF JoinsNext(s, i) THEN "initial"
                  ELSE "isolated"]]

Reverse(s) == [i \in 1..Len(s) |-> s[Len(s) + 1 - i]]

RECURSIVE RunLength(_, _)
\* Length of the longest prefix of s whose characters are all of `class`.
RunLength(s, class) ==
    IF s # <<>> /\ Head(s).ch \in class
    THEN 1 + RunLength(Tail(s), class)
    ELSE 0

RECURSIVE ReverseRuns(_, _)
\* s with every maximal run of characters of `class` reversed in place.
ReverseRuns(s, class) ==
    IF s = <<>> THEN <<>>
    ELSE LET n == RunLength(s, class)
         IN IF n = 0
            THEN <<Head(s)>> \o ReverseRuns(Tail(s), class)
            ELSE Reverse(SubSeq(s, 1, n))
                 \o ReverseRuns(SubSeq(s, n + 1, Len(s)), class)

StrongLTR == LatinLetters \cup Digits

\* The paragraph's base direction: that of its first strong character.
BaseIsRTL(s) ==
    LET strong == {i \in 1..Len(s) : s[i].ch \in ArabicLetters \cup LatinLetters}
    IN /\ strong # {}
       /\ s[CHOOSE i \in strong : \A j \in strong : i <= j].ch \in ArabicLetters

\* bidi.algorithm.get_display: the characters in the order a left-to-right
\* rasterizer must draw them.
GetDisplay(s) ==
    IF BaseIsRTL(s) THEN ReverseRuns(Reverse(s), StrongLTR)
    ELSE ReverseRuns(s, ArabicLetters)

prepare_text(text) ==
    IF text = <<>> THEN <<>> ELSE GetDisplay(Reshape(text))

----------------------------------------------------------------------------
(* The spreadsheet *)

\* Columns: name, job title, employee number, national id, photo reference.
Columns == {"name", "job", "num", "national_id", "photo"}

\* A cell as pandas reads it: a blank cell is NaN, any other a string.
NaN == [nan |-> TRUE]
Str(s) == [nan |-> FALSE, s |-> s]

\* row.get(col, ""): the cell, or "" when the sheet has no such column.
RowGet(r, col) == IF col \in DOMAIN r THEN r[col] ELSE Str(<<>>)

\* str(value): NaN prints as "nan".
PyStr(v) == IF v.nan THEN <<"n", "a", "n">> ELSE v.s

\* str(row.get(col, "")).strip()
Field(r, col) == Strip(PyStr(RowGet(r, col)))

----------------------------------------------------------------------------
(* Configuration and layout *)

PHOTO_POS == <<111, 168>>
PHOTO_SIZE == <<300, 300>>
BARCODE_POS == <<570, 465>>
BARCODE_SIZE == <<390, 120>>
NAME_OFFSET_X == -40
NAME_OFFSET_Y == -20
base_name_xy == <<915, 240>>

\* Size of the Arabic font; the height draw.textbbox measures for one line
\* of text in it is taken to be the font's size.
FontArSize == 36

\* (bbox[3] - bbox[1]) of draw.textbbox((0, 0), text, font=font_ar)
TextHeight(text) == IF text = <<>> THEN 0 ELSE FontArSize

\* The characters of the label "الرقم الوظيفي: " put before the employee number.
LabelPrefix ==
    <<"alef", "lam", "reh", "qaf", "meem", " ",
      "alef", "lam", "waw", "zah", "yeh", "feh", "yeh", ":", " ">>

NoPhoto == [present |-> FALSE]
NoBarcode == [present |-> FALSE]
NoRow == [active |-> FALSE]
NoCard == [active |-> FALSE]
NoPdf == [written |-> FALSE]

\* The card after the text placement of one iteration (template.copy() and
\* the three draw calls); `i` is the row it is rendered from.
TextCard(i, name, job, job_id_label) ==
    LET name_xy == <<base_name_xy[1] + NAME_OFFSET_X, base_name_xy[2] + NAME_OFFSET_Y>>
        name_height == TextHeight(name) + 20
        job_xy == <<name_xy[1], name_xy[2] + name_height>>
        job_height == TextHeight(job) + 25
        id_xy == <<name_xy[1], job_xy[2] + job_height>>
    IN [active |-> TRUE, row |-> i,
        name |-> name, name_xy |-> name_xy,
        job |-> job, job_xy |-> job_xy,
        label |-> job_id_label, id_xy |-> id_xy,
        photo |-> NoPhoto, barcode |-> NoBarcode]

\* Code128 accepts the characters of its code sets (ASCII) and raises
\* IllegalCharacterError on any other.
Code128Charset == LatinLetters \cup Digits \cup {" ", ".", ":"}

Encodable(payload) == \A i \in 1..Len(payload) : payload[i] \in Code128Charset

\* A list that holds only the newest card.
AppendCardReset(cards, c) == <<c>>

\* A list built at the front.
AppendCardFront(cards, c) == <<c>> \o cards

\* output_cards.append(card)
AppendCard(cards, c) == Append(cards, c)

\* An extraction failure that leaves the scratch directory behind.
CleanupKeepsTmpdir(state) == state

\* shutil.rmtree(tmpdir, ignore_errors=True) on the failure paths of the
\* extraction.
CleanupOnExtractFailure(state) == "deleted"

\* output_cards[0].save(pdf_path, save_all=True, append_images=output_cards[1:])
PdfPages(cards) == <<Head(cards)>> \o Tail(cards)

----------------------------------------------------------------------------
(* Inputs *)

ZipExt == <<".", "z", "i", "p">>
RarExt == <<".", "r", "a", "r">>

IsZip(archive_name) == EndsWith(LowerStr(archive_name), ZipExt)
IsRar(archive_name) == EndsWith(LowerStr(archive_name), RarExt)

\* The archives that may be uploaded: a ZIP with a nested folder (an image
\* and a file that is no image), a RAR with one image at its top, and a file
\* that is neither.
Archives ==
    { [name |-> <<"a", ".", "Z", "I", "P">>,
       tree |-> Dir("", <<>>,
                    <<Dir("d1",
                          <<File(<<"A", ".", "j">>, "image"),
                            File(<<"b", ".", "p">>, "other")>>,
                          <<>>)>>)],
      [name |-> <<"p", ".", "r", "a", "r">>,
       tree |-> Dir("", <<File(<<"a", ".", "j">>, "image")>>, <<>>)],
      [name |-> <<"p", ".", "t", "a", "r">>,
       tree |-> Dir("", <<>>, <<>>)] }

\* The rows a spreadsheet may hold.
RowValues ==
    { [name |-> Str(<<"beh", "alef", "beh">>), job |-> Str(<<"a", "b">>),
       num |-> Str(<<"7">>), national_id |-> Str(<<"1", "2">>),
       photo |-> Str(<<" ", "A", ".", "J">>)],
      [name |-> NaN, job |-> NaN, num |-> NaN, national_id |-> NaN,
       photo |-> NaN],
      [name |-> Str(<<"a", "b">>), job |-> Str(<<"beh", "alef">>),
       num |-> Str(<<"7">>), national_id |-> Str(<<" ">>),
       photo |-> Str(<<"c">>)],
      [name |-> Str(<<"beh", "alef">>), job |-> Str(<<" ">>),
       num |-> Str(<<"1">>), national_id |-> Str(<<"beh">>),
       photo |-> Str(<<"b", ".", "p">>)],
      [name |-> Str(<<"A", " ", "beh">>), job |-> NaN,
       num |-> Str(<<"1", "2">>), national_id |-> Str(<<"7", " ", "a">>),
       photo |-> Str(<<"P", ".", "j">>)] }

\* The sets of columns a spreadsheet may have: all five, or one missing.
ColumnSets == {Columns, Columns \ {"national_id"}, Columns \ {"photo"}}

Restrict(r, cols) == [c \in cols |-> r[c]]

RowSeqs == UNION {[1..n -> RowValues] : n \in 0..MaxRows}

DataFrames ==
    {[cols |-> cols, rows |-> [i \in 1..Len(rs) |-> Restrict(rs[i], cols)]] :
        cols \in ColumnSets, rs \in RowSeqs}

NoDf == [cols |-> {}, rows |-> <<>>]

----------------------------------------------------------------------------
(* The script *)

Init ==
    /\ pc = "read_excel"
    /\ photos_archive \in Archives
    /\ df = NoDf
    /\ tmpdir_state = "not_created"
    /\ tmpdir = EmptyDir
    /\ idx = 0
    /\ row = NoRow
    /\ card = NoCard
    /\ output_cards = <<>>
    /\ warnings = {}
    /\ errors = {}
    /\ tmpfiles = {}
    /\ pdf = NoPdf

\* df = pd.read_excel(excel_file)
ReadExcel ==
    /\ pc = "read_excel"
    /\ df' \in DataFrames
    /\ pc' = "read_template"
    /\ UNCHANGED <<photos_archive, tmpdir_state, tmpdir, idx, row, card,
                   output_cards, warnings, errors, tmpfiles, pdf>>

\* pd.read_excel raises: st.error, st.stop()
ReadExcelFails ==
    /\ pc = "read_excel"
    /\ errors' = errors \cup {"excel"}
    /\ pc' = "stopped"
    /\ UNCHANGED <<photos_archive, df, tmpdir_state, tmpdir, idx, row, card,
                   output_cards, warnings, tmpfiles, pdf>>

\* template = Image.open(template_file).convert("RGB")
ReadTemplate ==
    /\ pc = "read_template"
    /\ pc' = "mkdtemp"
    /\ UNCHANGED <<photos_archive, df, tmpdir_state, tmpdir, idx, row, card,
                   output_cards, warnings, errors, tmpfiles, pdf>>

\* Image.open raises: st.error, st.stop()
ReadTemplateFails ==
    /\ pc = "read_template"
    /\ errors' = errors \cup {"template"}
    /\ pc' = "stopped"
    /\ UNCHANGED <<photos_archive, df, tmpdir_state, tmpdir, idx, row, card,
                   output_cards, warnings, tmpfiles, pdf>>

\* tmpdir = tempfile.mkdtemp(...); the upload is written into it under its
\* own name.
SaveArchive ==
    /\ pc = "mkdtemp"
    /\ tmpdir_state' = "exists"
    /\ tmpdir' = Dir("", <<File(photos_archive.name, "archive")>>, <<>>)
    /\ pc' = "extract"
    /\ UNCHANGED <<photos_archive, df, idx, row, card, output_cards,
                   warnings, errors, tmpfiles, pdf>>

\* `files` with f put in at position k (0 = first).
InsertAt(files, k, f) ==
    SubSeq(files, 1, k) \o <<f>> \o SubSeq(files, k + 1, Len(files))

\* extractall(tmpdir): the archive's members join the saved upload in tmpdir.
\* Where the upload stands among the listed files is the file system's choice.
Extracted(k) ==
    Dir("",
        InsertAt(photos_archive.tree.files, k, File(photos_archive.name, "archive")),
        photos_archive.tree.dirs)

\* zipfile.ZipFile(archive_path).extractall(tmpdir)
ExtractZip ==
    /\ pc = "extract"
    /\ IsZip(photos_archive.name)
    /\ \E k \in 0..Len(photos_archive.tree.files) : tmpdir' = Extracted(k)
    /\ pc' = "loop"
    /\ UNCHANGED <<photos_archive, df, tmpdir_state, idx, row, card,
                   output_cards, warnings, errors, tmpfiles, pdf>>

\* rarfile.RarFile(archive_path).extractall(tmpdir); ensure_rar_support
\* returns True on each of its paths.
ExtractRar ==
    /\ pc = "extract"
    /\ ~IsZip(photos_archive.name)
    /\ IsRar(photos_archive.name)
    /\ \E k \in 0..Len(photos_archive.tree.files) : tmpdir' = Extracted(k)
    /\ pc' = "loop"
    /\ UNCHANGED <<photos_archive, df, tmpdir_state, idx, row, card,
                   output_cards, warnings, errors, tmpfiles, pdf>>

\* The extraction raises (a damaged archive, rarfile or unrar missing):
\* st.error, rmtree, st.stop()
ExtractFails ==
    /\ pc = "extract"
    /\ IsZip(photos_archive.name) \/ IsRar(photos_archive.name)
    /\ errors' = errors \cup {"extract"}
    /\ tmpdir_state' = CleanupOnExtractFailure(tmpdir_state)
    /\ tmpdir' = EmptyDir
    /\ pc' = "stopped"
    /\ UNCHANGED <<photos_archive, df, idx, row, card, output_cards,
                   warnings, tmpfiles, pdf>>

\* Neither .zip nor .rar: st.error, rmtree, st.stop()
UnsupportedArchive ==
    /\ pc = "extract"
    /\ ~IsZip(photos_archive.name)
    /\ ~IsRar(photos_archive.name)
    /\ errors' = errors \cup {"unsupported"}
    /\ tmpdir_state' = CleanupOnExtractFailure(tmpdir_state)
    /\ tmpdir' = EmptyDir
    /\ pc' = "stopped"
    /\ UNCHANGED <<photos_archive, df, idx, row, card, output_cards,
                   warnings, tmpfiles, pdf>>

Warn(i, kind) == [row |-> i, kind |-> kind]

\* Lines 204-237 of one iteration: the fields are read from the row, shaped
\* and drawn on a copy of the template.
RowText ==
    /\ pc = "loop"
    /\ idx < Len(df.rows)
    /\ LET r == df.rows[idx + 1]
           num == Field(r, "num")
       IN /\ row' = [active |-> TRUE,
                     national_id |-> Field(r, "national_id"),
                     photo_filename |-> Field(r, "photo"),
                     photo_path |-> NotFound]
          /\ card' = TextCard(idx + 1,
                              prepare_text(Field(r, "name")),
                              prepare_text(Field(r, "job")),
                              prepare_text(LabelPrefix \o num))
    /\ pc' = "photo"
    /\ UNCHANGED <<photos_archive, df, tmpdir_state, tmpdir, idx,
                   output_cards, warnings, errors, tmpfiles, pdf>>

\* arabic_reshaper.reshape or get_display raises inside prepare_text: no
\* handler is in scope, so the exception ends the script run.  The label is
\* never empty, so every iteration makes a call that reaches the reshaper.
RowTextRaises ==
    /\ pc = "loop"
    /\ idx < Len(df.rows)
    /\ errors' = errors \cup {"exception_in_prepare_text"}
    /\ pc' = "crashed"
    /\ UNCHANGED <<photos_archive, df, tmpdir_state, tmpdir, idx, row, card,
                   output_cards, warnings, tmpfiles, pdf>>

\* Lines 240-250: the photo is looked up under tmpdir, cropped to the face
\* when the detector finds one, resized and pasted.  A file that is no image
\* makes cv2.imread return None and Image.open raise.
RowPhoto ==
    /\ pc = "photo"
    /\ LET photo_path == find_photo_path(tmpdir, row.photo_filename)
       IN /\ row' = [row EXCEPT !.photo_path = photo_path]
          /\ IF photo_path.found
             THEN IF photo_path.kind = "image"
                  THEN /\ \E face \in BOOLEAN :
                            card' = [card EXCEPT !.photo =
                                        [present |-> TRUE,
                                         dirpath |-> photo_path.dirpath,
                                         fn |-> photo_path.fn,
                                         cropped |-> face,
                                         pos |-> PHOTO_POS,
                                         size |-> PHOTO_SIZE]]
                       /\ UNCHANGED warnings
                  ELSE /\ warnings' = warnings \cup {Warn(idx + 1, "photo_failed")}
                       /\ UNCHANGED card
             ELSE /\ warnings' = warnings \cup {Warn(idx + 1, "photo_not_found")}
                  /\ UNCHANGED card
    /\ pc' = "barcode"
    /\ UNCHANGED <<photos_archive, df, tmpdir_state, tmpdir, idx,
                   output_cards, errors, tmpfiles, pdf>>

\* What the file system does during one barcode step.
IoOutcomes == {"ok", "mktemp_fails", "write_or_read_fails"}

\* Lines 252-271: the barcode step, then output_cards.append(card).
\* NamedTemporaryFile(delete=False) leaves <out_noext>.png on disk; Code128
\* raises on a payload outside its character set; barcode.save writes
\* <out_noext>.png; the two os.remove calls are the last statements of the
\* branch, so they run only when nothing before them raised.
RowBarcode ==
    /\ pc = "barcode"
    /\ \E io \in IoOutcomes :
          IF row.national_id = <<>>
          THEN /\ warnings' = warnings \cup {Warn(idx + 1, "national_id_missing")}
               /\ output_cards' = AppendCard(output_cards, card)
               /\ UNCHANGED tmpfiles
          ELSE IF io = "mktemp_fails"
          THEN /\ warnings' = warnings \cup {Warn(idx + 1, "barcode_failed")}
               /\ output_cards' = AppendCard(output_cards, card)
               /\ UNCHANGED tmpfiles
          ELSE IF ~Encodable(row.national_id) \/ io = "write_or_read_fails"
          THEN /\ warnings' = warnings \cup {Warn(idx + 1, "barcode_failed")}
               /\ output_cards' = AppendCard(output_cards, card)
               /\ tmpfiles' = tmpfiles \cup {[row |-> idx + 1, ext |-> "png"]}
          ELSE /\ output_cards' =
                      AppendCard(output_cards,
                                 [card EXCEPT !.barcode =
                                     [present |-> TRUE,
                                      payload |-> row.national_id,
                                      pos |-> BARCODE_POS,
                                      size |-> BARCODE_SIZE]])
               /\ UNCHANGED <<warnings, tmpfiles>>
    /\ idx' = idx + 1
    /\ row' = NoRow
    /\ card' = NoCard
    /\ pc' = "loop"
    /\ UNCHANGED <<photos_archive, df, tmpdir_state, tmpdir, errors, pdf>>

\* The for loop has no row left: status.empty()
LoopEnds ==
    /\ pc = "loop"
    /\ idx = Len(df.rows)
    /\ pc' = "export"
    /\ UNCHANGED <<photos_archive, df, tmpdir_state, tmpdir, idx, row, card,
                   output_cards, warnings, errors, tmpfiles, pdf>>

PdfName == <<"All_ID_Cards", ".", "p", "d", "f">>

\* Lines 276-283: the cards are saved as one PDF in tmpdir and offered for
\* download.  Nothing after the loop removes tmpdir.
ExportPdf ==
    /\ pc = "export"
    /\ output_cards # <<>>
    /\ pdf' = [written |-> TRUE, pages |-> PdfPages(output_cards)]
    /\ tmpdir' = [tmpdir EXCEPT !.files = Append(@, File(PdfName, "pdf"))]
    /\ pc' = "done"
    /\ UNCHANGED <<photos_archive, df, tmpdir_state, idx, row, card,
                   output_cards, warnings, errors, tmpfiles>>

\* Lines 284-285: saving or reopening the PDF raises: st.error
ExportPdfFails ==
    /\ pc = "export"
    /\ output_cards # <<>>
    /\ errors' = errors \cup {"pdf"}
    /\ pc' = "done"
    /\ UNCHANGED <<photos_archive, df, tmpdir_state, tmpdir, idx, row, card,
                   output_cards, warnings, tmpfiles, pdf>>

\* Lines 286-287: no card was generated: st.warning
NoCards ==
    /\ pc = "export"
    /\ output_cards = <<>>
    /\ warnings' = warnings \cup {Warn(0, "no_cards")}
    /\ pc' = "done"
    /\ UNCHANGED <<photos_archive, df, tmpdir_state, tmpdir, idx, row, card,
                   output_cards, errors, tmpfiles, pdf>>

Next ==
    \/ ReadExcel
    \/ ReadExcelFails
    \/ ReadTemplate
    \/ ReadTemplateFails
    \/ SaveArchive
    \/ ExtractZip
    \/ ExtractRar
    \/ ExtractFails
    \/ UnsupportedArchive
    \/ RowText
    \/ RowTextRaises
    \/ RowPhoto
    \/ RowBarcode
    \/ LoopEnds
    \/ ExportPdf
    \/ ExportPdfFails
    \/ NoCards

Spec == Init /\ [][Next]_vars

Terminal == pc \in {"done", "stopped", "crashed"}

----------------------------------------------------------------------------
(* find_photo_path on its own: SpecFind applies it once to a directory     *)
(* tree and a requested name drawn from the sets below.                    *)

FindFileLists ==
    { <<>>,
      <<File(<<"A", ".", "j">>, "image")>>,
      <<File(<<"b", ".", "j">>, "image"), File(<<"a", ".", "p">>, "image")>>,
      <<File(<<"a", ".", "b", ".", "j">>, "image"), File(<<".", "a">>, "other")>> }

\* The requested names, as the row loop passes them: already stripped.
FindRequests ==
    { <<>>,
      <<"a">>,
      <<"A", ".", "J">>,
      <<"B">>,
      <<"c", ".", "j">>,
      <<"a", ".", "b">>,
      <<"A", ".", "B", ".", "p">>,
      <<".", "a">> }

RECURSIVE Chains(_)
\* The directories named "e" with at most n levels, each level holding at
\* most one subdirectory.
Chains(n) ==
    IF n = 0 THEN {}
    ELSE {Dir("e", fl, sub) :
            fl \in FindFileLists,
            sub \in {<<>>} \cup {<<c>> : c \in Chains(n - 1)}}

Named(d, name) == [d EXCEPT !.name = name]

\* Roots with up to two subdirectories, nested up to MaxDepth levels.
FindRoots ==
    {Dir("", fl, ds) :
        fl \in FindFileLists,
        ds \in {<<>>}
               \cup {<<Named(c, "d1")>> : c \in Chains(MaxDepth)}
               \cup {<<Named(c[1], "d1"), Named(c[2], "d2")>> :
                        c \in Chains(MaxDepth) \X Chains(MaxDepth)}}

InitFind ==
    /\ pc = "find_call"
    /\ tmpdir \in FindRoots
    /\ photos_archive = [name |-> <<>>, tree |-> tmpdir]
    /\ \E requested \in FindRequests :
          row = [active |-> TRUE, national_id |-> <<>>,
                 photo_filename |-> requested, photo_path |-> NotFound]
    /\ df = NoDf
    /\ tmpdir_state = "exists"
    /\ idx = 0
    /\ card = NoCard
    /\ output_cards = <<>>
    /\ warnings = {}
    /\ errors = {}
    /\ tmpfiles = {}
    /\ pdf = NoPdf

\* photo_path = find_photo_path(tmpdir, photo_filename)
FindPhoto ==
    /\ pc = "find_call"
    /\ row' = [row EXCEPT !.photo_path = find_photo_path(tmpdir, row.photo_filename)]
    /\ pc' = "find_done"
    /\ UNCHANGED <<photos_archive, df, tmpdir_state, tmpdir, idx, card,
                   output_cards, warnings, errors, tmpfiles, pdf>>

NextFind == FindPhoto

SpecFind == InitFind /\ [][NextFind]_vars

----------------------------------------------------------------------------
(* Properties *)

FatalErrors == {"excel", "template", "unsupported", "extract"}

BarcodeWarnings == {"national_id_missing", "barcode_failed"}

HasWarning(i, kinds) == \E w \in warnings : w.row = i /\ w.kind \in kinds

RowHasWarning(i) == \E w \in warnings : w.row = i

\* A cell that is blank, or a column the sheet does not have.
Blank(r, col) == col \notin DOMAIN r \/ r[col].nan

\* C1: when the row loop has ended, output_cards holds as many cards as the
\* spreadsheet has rows, whatever photo and barcode warnings the rows raised;
\* while the loop runs it holds one card per finished row.
C1_CardCountEqualsRowCount ==
    /\ pc \in {"export", "done"} => Len(output_cards) = Len(df.rows)
    /\ pc \in {"loop", "photo", "barcode", "export", "done"} =>
          Len(output_cards) = idx

\* C1 witness: a finished run of at least two rows in which every row raised
\* a warning, a failed photo and a failed barcode among them.
C1_Witness ==
    /\ pc = "done"
    /\ Len(df.rows) >= 2
    /\ Len(output_cards) = Len(df.rows)
    /\ \A i \in 1..Len(df.rows) : RowHasWarning(i)
    /\ \E w \in warnings : w.kind = "photo_failed"
    /\ \E w \in warnings : w.kind = "barcode_failed"
    /\ \E w \in warnings : w.kind = "photo_not_found"
    /\ \E w \in warnings : w.kind = "national_id_missing"

\* C2: in every state in which the script has ended after creating the
\* scratch directory, the scratch directory has been deleted.
C2_ScratchDirReleased ==
    pc \in {"done", "stopped"} => tmpdir_state # "exists"

\* C3: for every finished row the barcode step was skipped (no barcode on
\* the card, a barcode warning for the row) exactly when the row's
\* national-id field is empty or its payload cannot be encoded in Code 128;
\* otherwise the barcode is on the card at BARCODE_POS and the row has no
\* barcode warning.
C3_BarcodeSkippedIffEmptyOrUnencodable ==
    \A i \in 1..Len(output_cards) :
        LET r == df.rows[i]
            c == output_cards[i]
            empty == Blank(r, "national_id") \/ Strip(r["national_id"].s) = <<>>
            unencodable == ~empty /\ ~Encodable(Strip(r["national_id"].s))
            skipped == ~c.barcode.present /\ HasWarning(i, BarcodeWarnings)
        IN /\ skipped <=> (empty \/ unencodable)
           /\ ~(empty \/ unencodable) =>
                 /\ c.barcode.present
                 /\ c.barcode.pos = BARCODE_POS
                 /\ ~HasWarning(i, BarcodeWarnings)

\* C4: a blank cell or a missing column reads as the empty string in each of
\* the five fields; a blank national id takes the "national ID missing"
\* path and a blank photo reference makes the lookup return absent.
C4_BlankCellIsEmptyString ==
    /\ (pc \in {"photo", "barcode"}) =>
          LET r == df.rows[idx + 1]
          IN /\ Blank(r, "name") => card.name = <<>>
             /\ Blank(r, "job") => card.job = <<>>
             /\ Blank(r, "num") => card.label = prepare_text(LabelPrefix)
             /\ Blank(r, "national_id") => row.national_id = <<>>
             /\ Blank(r, "photo") => row.photo_filename = <<>>
    /\ \A i \in 1..Len(output_cards) :
          Blank(df.rows[i], "national_id") =>
              /\ HasWarning(i, {"national_id_missing"})
              /\ ~output_cards[i].barcode.present

\* C5: a failure of reshaping or reordering never ends the run: no exception
\* leaves prepare_text.
C5_ShapingNeverAborts ==
    /\ pc # "crashed"
    /\ "exception_in_prepare_text" \notin errors

\* C6: card i is the card rendered from row i; rows are rendered one at a
\* time in spreadsheet order; the PDF holds the cards in that order and is
\* written only after the last row.
C6_CardsInRowOrder ==
    /\ \A i \in 1..Len(output_cards) :
          /\ output_cards[i].row = i
          /\ output_cards[i].name = prepare_text(Field(df.rows[i], "name"))
          /\ output_cards[i].job = prepare_text(Field(df.rows[i], "job"))
          /\ output_cards[i].label =
                prepare_text(LabelPrefix \o Field(df.rows[i], "num"))
    /\ card.active => card.row = idx + 1 /\ Len(output_cards) = idx
    /\ pdf.written =>
          /\ idx = Len(df.rows)
          /\ ~card.active
          /\ Len(pdf.pages) = Len(df.rows)
          /\ \A i \in 1..Len(pdf.pages) : pdf.pages[i] = output_cards[i]

\* C6 witness: a PDF of at least two pages whose first two pages differ.
C6_Witness ==
    /\ pdf.written
    /\ Len(pdf.pages) >= 2
    /\ pdf.pages[1].name # pdf.pages[2].name
    /\ pdf.pages[1].row = 1
    /\ pdf.pages[2].row = 2

RECURSIVE FlattenWalk(_)
\* The files of a walk, in the order it meets them.
FlattenWalk(entries) ==
    IF entries = <<>> THEN <<>>
    ELSE [k \in 1..Len(Head(entries).files) |->
             FoundAt(Head(entries).dirpath, Head(entries).files[k])]
         \o FlattenWalk(Tail(entries))

RECURSIVE AllFiles(_, _)
\* Every file anywhere under directory d, whose path is dirpath.
AllFiles(dirpath, d) ==
    {FoundAt(dirpath, d.files[k]) : k \in 1..Len(d.files)}
    \cup UNION {AllFiles(dirpath \o <<d.dirs[k].name>>, d.dirs[k]) :
                   k \in 1..Len(d.dirs)}

\* The key two names are compared by: lower case, extension stripped.
MatchKey(name) == LowerStr(Stem(name))

\* C7: after find_photo_path(root, requested): if requested is not empty and
\* some file under root, at any depth, has the key of requested, the result
\* is the first such file in traversal order, a file that exists under root;
\* otherwise the result is absent.  The tree is as it was before the call.
C7_FindReturnsFirstMatch ==
    pc = "find_done" =>
        LET requested == row.photo_filename
            result == row.photo_path
            files == AllFiles(<<>>, tmpdir)
            order == FlattenWalk(Walk(<<>>, tmpdir))
            matching == {f \in files : MatchKey(f.fn) = MatchKey(requested)}
            hits == {k \in 1..Len(order) : order[k] \in matching}
        IN /\ tmpdir = photos_archive.tree
           /\ (requested = <<>> \/ matching = {}) => ~result.found
           /\ (requested # <<>> /\ matching # {}) =>
                 /\ result.found
                 /\ result \in files
                 /\ MatchKey(result.fn) = MatchKey(requested)
                 /\ hits # {}
                 /\ result = order[CHOOSE k \in hits : \A j \in hits : k <= j]

\* C7 witness: the request differs from the file found in case and in
\* extension, the file is two levels down, and a later file matches too.
C7_Witness ==
    /\ pc = "find_done"
    /\ row.photo_path.found
    /\ Len(row.photo_path.dirpath) >= 2
    /\ row.photo_path.fn # row.photo_filename
    /\ LowerStr(row.photo_path.fn) # LowerStr(row.photo_filename)
    /\ Cardinality({f \in AllFiles(<<>>, tmpdir) :
                       MatchKey(f.fn) = MatchKey(row.photo_filename)}) >= 2

\* C8: once a fatal error has been reported the script has stopped with no
\* row rendered, no card collected, no PDF written and no scratch directory
\* left; and the script stops in this way for no other reason.
C8_FatalErrorHaltsBeforeAnyCard ==
    /\ (errors \cap FatalErrors # {}) =>
          /\ pc = "stopped"
          /\ idx = 0
          /\ ~row.active
          /\ ~card.active
          /\ output_cards = <<>>
          /\ ~pdf.written
          /\ tmpdir_state # "exists"
    /\ pc = "stopped" => errors \cap FatalErrors # {}

\* C8 witness: the extraction failed after the scratch directory was made,
\* and the directory is gone.
C8_Witness ==
    /\ pc = "stopped"
    /\ "extract" \in errors
    /\ tmpdir_state = "deleted"

\* C9: once the barcode step of a row is over, no temporary barcode file
\* made for that row is on disk.
C9_BarcodeTempFilesReleased ==
    \A f \in tmpfiles : f.row > idx

\* C10: the path the photo lookup returns is never the uploaded archive
\* itself.
C10_LookupNeverReturnsArchive ==
    (pc = "barcode" /\ row.photo_path.found) =>
        ~(row.photo_path.dirpath = <<>> /\ row.photo_path.fn = photos_archive.name)

====
